---- MODULE Spec2Model ----
(***************************************************************************)
(* Model of src/queue.js: the cyclic Queue and the TrackerQueue that       *)
(* extends it.  A queue object is a record; every method is an operator    *)
(* from the object (and its arguments) to the object after the call and    *)
(* the value returned.  JavaScript's array and number semantics that the   *)
(* code relies on (holes, properties "-1" and "NaN", % by zero, NaN        *)
(* comparisons, copyWithin) are modelled as the language defines them.     *)
(***************************************************************************)
EXTENDS Integers, Sequences, FiniteSets, TLC

\* ------------------------------------------------------------------ bounds
\* Largest initial capacity given to the constructor as a number.
MaxCapacity == 2
\* Longest iterable given to the constructor.
MaxInit == 2
\* Largest backing-array length: a push that would grow past it is not taken.
MaxLength == 4
\* Pushes made in a row on a queue that was just cleared.
ClearPushes == 3
\* Number of distinct element values.
NumVals == 2
\* Number of distinct element values (keys) given to a tracked queue.
NumKeys == 3
\* Pushes in the push/pop-only specification.
MaxPushes == 5
\* Pushes made on a tracked queue after its construction.
MaxTrackedPushes == 4

\* ------------------------------------------------- JavaScript values
\* `undefined`: the value of a hole, of a missing property, and the marker
\* the methods return for "no element".
undefined == 0
\* NaN, the result of `x % 0` and of arithmetic on `undefined`.
NaN == -99

Val == 1..NumVals
TVal == 1..NumKeys
\* Property keys of the backing array that the code can touch.
Keys == {NaN} \cup (-1..MaxLength)

JsAdd(a, b) == IF a = NaN \/ b = NaN THEN NaN ELSE a + b
\* JavaScript %: NaN for a zero divisor, sign of the dividend otherwise.
JsMod(a, b) ==
    IF a = NaN \/ b = NaN \/ b = 0 THEN NaN
    ELSE IF a >= 0 THEN a % b ELSE 0 - ((0 - a) % b)
\* Comparisons with NaN are false.
JsLt(a, b) == a # NaN /\ b # NaN /\ a < b
JsGe(a, b) == a # NaN /\ b # NaN /\ a >= b
JsGt(a, b) == a # NaN /\ b # NaN /\ a > b

Min(a, b) == IF a < b THEN a ELSE b
Max(a, b) == IF a > b THEN a ELSE b

\* this._array[idx]: an index at or past length, or a property never set, reads
\* as undefined.
Get(q, idx) ==
    IF idx \notin Keys THEN undefined
    ELSE IF idx # NaN /\ idx >= q.length THEN undefined
    ELSE q.array[idx]

\* this._array[idx] = v: an index at or past length extends the array; the
\* keys -1 and NaN are plain properties and leave length alone.
Put(q, idx, v) ==
    [q EXCEPT !.array = [@ EXCEPT ![idx] = v],
              !.length = IF idx # NaN /\ idx >= @ THEN idx + 1 ELSE @]

\* Array.prototype.copyWithin (ECMAScript 23.1.3.4).
RelIndex(x, len) ==
    LET r == IF x = NaN THEN 0 ELSE x
    IN  IF r < 0 THEN Max(len + r, 0) ELSE Min(r, len)
copyWithin(q, target, start, end) ==
    LET len == q.length
        to == RelIndex(target, len)
        from == RelIndex(start, len)
        final == RelIndex(end, len)
        count == Min(final - from, len - to)
    IN  IF count <= 0 THEN q
        ELSE [q EXCEPT !.array =
                [k \in Keys |->
                    IF k # NaN /\ k >= to /\ k < to + count
                    THEN q.array[from + (k - to)]
                    ELSE q.array[k]]]

EmptyArray == [k \in Keys |-> undefined]

\* ------------------------------------------------------------- Queue
\* constructor(arg), arg an iterable: Array.from(arg).
Queue_fromIterable(s) ==
    [array |-> [k \in Keys |-> IF k # NaN /\ k >= 0 /\ k < Len(s) THEN s[k + 1] ELSE undefined],
     length |-> Len(s),
     size |-> Len(s),
     backIndex |-> Len(s) - 1,
     frontIndex |-> 0]

\* constructor(arg), arg a number: new Array(capacity).
Queue_fromCapacity(capacity) ==
    [array |-> EmptyArray,
     length |-> capacity,
     size |-> 0,
     backIndex |-> 0,
     frontIndex |-> 0]

\* What a variable holds when the constructor threw: no object.
NoQueue ==
    [array |-> EmptyArray, length |-> NaN, size |-> NaN, backIndex |-> NaN,
     frontIndex |-> NaN]

\* new Queue(capacity) for any integer: `new Array(capacity)` (line 22) throws
\* a RangeError for a negative length and allocates for zero and above; the
\* constructor itself tests nothing.
Queue_new(capacity) ==
    IF capacity < 0
    THEN [q |-> NoQueue, error |-> "RangeError"]
    ELSE [q |-> Queue_fromCapacity(capacity), error |-> "none"]

size(q) == q.size
front(q) == IF q.size # 0 THEN Get(q, q.frontIndex) ELSE undefined
back(q) == IF q.size # 0 THEN Get(q, q.backIndex) ELSE undefined

Queue_at(q, index) ==
    LET i == JsMod(JsAdd(q.frontIndex, index), q.length)
    IN  Get(q, i)

\* at whose upper bound admits index = size.
at_inclusiveBound(q, index) ==
    IF JsGe(index, 0) /\ ~JsGt(index, q.size) THEN Queue_at(q, index) ELSE undefined

at(q, index) ==
    IF JsGe(index, 0) /\ JsLt(index, q.size) THEN Queue_at(q, index) ELSE undefined

\* The queue's iterator run to completion: at(0), ..., at(size-1).
Elements(q) == [i \in 1..q.size |-> Queue_at(q, i - 1)]

\* _expand that only doubles the length and relocates nothing.
Queue_expand_noRelocation(q) == [q EXCEPT !.length = 2 * @]

\* _expand that relocates the tail but leaves backIndex where it was.
Queue_expand_staleBack(q) ==
    LET oldLength == q.length
        q1 == [q EXCEPT !.length = 2 * @]
    IN  IF JsLt(q1.backIndex, q1.frontIndex)
        THEN copyWithin(q1, oldLength, 0, JsAdd(q1.backIndex, 1))
        ELSE q1

Queue_expand(q) ==
    LET oldLength == q.length
        q1 == [q EXCEPT !.length = 2 * @]
        \* `this.backIndex` (line 51) names a property that is never
        \* assigned: it is undefined, and undefined + 1 is NaN.
        thisBackIndex == NaN
    IN  IF JsLt(q1.backIndex, q1.frontIndex)
        THEN IF JsGt(JsAdd(oldLength, 0 - q1.frontIndex), JsAdd(thisBackIndex, 1))
             THEN [copyWithin(q1, q1.frontIndex + oldLength, q1.frontIndex, oldLength)
                     EXCEPT !.frontIndex = JsAdd(@, oldLength)]
             ELSE [copyWithin(q1, oldLength, 0, JsAdd(q1.backIndex, 1))
                     EXCEPT !.backIndex = JsAdd(@, oldLength)]
        ELSE q1

Queue_push(q, item) ==
    IF q.size = 0
    THEN [Put(q, q.backIndex, item) EXCEPT !.size = @ + 1]
    ELSE LET q1 == IF q.size = q.length THEN Queue_expand(q) ELSE q
             b == JsMod(JsAdd(q1.backIndex, 1), q1.length)
         IN  [Put([q1 EXCEPT !.backIndex = b], b, item) EXCEPT !.size = @ + 1]

Queue_pop(q) ==
    IF q.size # 0
    THEN LET prevFront == Get(q, q.frontIndex)
             q1 == IF q.size > 1
                   THEN [q EXCEPT !.frontIndex = JsMod(JsAdd(@, 1), q.length)]
                   ELSE q
         IN  [q |-> [q1 EXCEPT !.size = @ - 1], ret |-> prevFront]
    ELSE [q |-> q, ret |-> undefined]

\* remove whose backward shift stops one slot short of backIndex.
Queue_remove_shortShift(q, index) ==
    LET item == at(q, index)
        i == JsMod(JsAdd(q.frontIndex, index), q.length)
        shiftFront == [copyWithin(q, JsAdd(q.frontIndex, 1), q.frontIndex, i)
                         EXCEPT !.frontIndex = JsAdd(@, 1)]
        shiftBack == [copyWithin(q, i, JsAdd(i, 1), q.backIndex)
                        EXCEPT !.backIndex = JsAdd(@, -1)]
        q1 == IF q.size > 1
              THEN IF JsGe(q.backIndex, q.frontIndex)
                   THEN IF JsLt(JsAdd(i, i), JsAdd(q.frontIndex, q.backIndex))
                        THEN shiftFront
                        ELSE shiftBack
                   ELSE IF JsGe(i, q.frontIndex)
                        THEN shiftFront
                        ELSE shiftBack
              ELSE q
    IN  IF item = undefined
        THEN [q |-> q, ret |-> undefined]
        ELSE [q |-> [q1 EXCEPT !.size = @ - 1], ret |-> item]

Queue_remove(q, index) ==
    LET item == at(q, index)
        i == JsMod(JsAdd(q.frontIndex, index), q.length)
        shiftFront == [copyWithin(q, JsAdd(q.frontIndex, 1), q.frontIndex, i)
                         EXCEPT !.frontIndex = JsAdd(@, 1)]
        shiftBack == [copyWithin(q, i, JsAdd(i, 1), JsAdd(q.backIndex, 1))
                        EXCEPT !.backIndex = JsAdd(@, -1)]
        q1 == IF q.size > 1
              THEN IF JsGe(q.backIndex, q.frontIndex)
                   THEN IF JsLt(JsAdd(i, i), JsAdd(q.frontIndex, q.backIndex))
                        THEN shiftFront
                        ELSE shiftBack
                   ELSE IF JsGe(i, q.frontIndex)
                        THEN shiftFront
                        ELSE shiftBack
              ELSE q
    IN  IF item = undefined
        THEN [q |-> q, ret |-> undefined]
        ELSE [q |-> [q1 EXCEPT !.size = @ - 1], ret |-> item]

\* clear that resets size and leaves the indices where they were.
Queue_clear_sizeOnly(q) == [q EXCEPT !.size = 0]

Queue_clear(q) == [q EXCEPT !.frontIndex = 0, !.backIndex = 0, !.size = 0]

\* ------------------------------------------------------ TrackerQueue
\* The default key function, (x) => x.
key(x) == x

\* Map.prototype.set / delete / get on this._tracker, a function whose
\* domain is the set of keys present.
MapSet(m, k, v) == [x \in (DOMAIN m) \cup {k} |-> IF x = k THEN v ELSE m[x]]
MapDelete(m, k) == [x \in (DOMAIN m) \ {k} |-> m[x]]
MapHas(m, k) == k \in DOMAIN m
EmptyMap == [x \in {} |-> 0]

\* for (let i = 0; i < n; ++i) this._tracker.set(key(this._array[i]), i);
\* run from i on.
RECURSIVE TrackSlots(_, _, _)
TrackSlots(t, i, n) ==
    IF i >= n THEN t
    ELSE TrackSlots([t EXCEPT !.tracker = MapSet(@, key(Get(t, i)), i)], i + 1, n)

\* constructor(arg, key): super(arg), then the loop over 0..size-1.
TrackerQueue_new(q) ==
    TrackSlots([array |-> q.array, length |-> q.length, size |-> q.size,
                backIndex |-> q.backIndex, frontIndex |-> q.frontIndex,
                tracker |-> EmptyMap], 0, q.size)

\* _expand() that rebuilds the tracker without calling super._expand().
TrackerQueue_expand_noSuper(t) == TrackSlots(t, 0, t.size)

\* _expand(): super._expand(), then the loop over 0..size-1.
TrackerQueue_expand(t) ==
    LET t1 == Queue_expand(t)
    IN  TrackSlots(t1, 0, t1.size)

\* push(item): super.push(item), whose call of this._expand() is the
\* override above, then the tracker entry of the new back.
TrackerQueue_push(t, item) ==
    LET t1 == IF t.size = 0
              THEN [Put(t, t.backIndex, item) EXCEPT !.size = @ + 1]
              ELSE LET t2 == IF t.size = t.length THEN TrackerQueue_expand(t) ELSE t
                       b == JsMod(JsAdd(t2.backIndex, 1), t2.length)
                   IN  [Put([t2 EXCEPT !.backIndex = b], b, item) EXCEPT !.size = @ + 1]
    IN  [t1 EXCEPT !.tracker = MapSet(@, key(item), t1.backIndex)]

TrackerQueue_pop(t) ==
    LET r == Queue_pop(t)
    IN  IF r.ret # undefined
        THEN [q |-> [r.q EXCEPT !.tracker = MapDelete(@, key(r.ret))], ret |-> r.ret]
        ELSE r

\* for (let i = 0; i < index; ++i) { k = (front + i) % length; set(key(array[k]), k) }
RECURSIVE Retrack(_, _, _)
Retrack(t, i, index) ==
    IF ~JsLt(i, index) THEN t
    ELSE LET k == JsMod(JsAdd(t.frontIndex, i), t.length)
         IN  Retrack([t EXCEPT !.tracker = MapSet(@, key(Get(t, k)), k)], i + 1, index)

TrackerQueue_remove(t, index) ==
    LET r == Queue_remove(t, index)
    IN  IF r.ret # undefined
        THEN [q |-> Retrack([r.q EXCEPT !.tracker = MapDelete(@, key(r.ret))], 0, index),
              ret |-> r.ret]
        ELSE r

position(t, item) ==
    IF MapHas(t.tracker, key(item))
    THEN LET queueIndex == t.tracker[key(item)]
             n == JsAdd(queueIndex, 0 - t.frontIndex)
         IN  IF JsGe(n, 0) THEN n ELSE JsAdd(t.size, n)
    ELSE -1

removeItem(t, item) ==
    LET r == TrackerQueue_remove(t, position(t, item))
    IN  [q |-> r.q, ret |-> r.ret # undefined]

TrackerQueue_clear(t) == [Queue_clear(t) EXCEPT !.tracker = EmptyMap]

\* ------------------------------------------------------ state machine
\* queue    a Queue object
\* tracked  a TrackerQueue object
\* op       the name of the last call ("push_expand": a push that called
\*          _expand, "push_expand_wrapped": on a window with backIndex <
\*          frontIndex; "remove_absent": a remove that returned undefined;
\*          "RangeError": the constructor threw and there is no object)
\* count    pushes minus the pops and removes that returned an element, since
\*          the last clear (the initial elements counted as pushes)
\* pushed, popped   the values pushed so far, and the values returned by the
\*          pops issued on a non-empty queue (push/pop-only specification)
\* held     the values given to the tracked queue and not yet handed back
\* npush    the number of pushes made on the tracked queue
\* abstract  the sequence of elements that the calls made so far leave in an
\*          abstract queue (refinement specification)
VARIABLES queue, tracked, op, count, pushed, popped, held, npush, abstract

vars == <<queue, tracked, op, count, pushed, popped, held, npush, abstract>>

Range(s) == {s[i] : i \in DOMAIN s}

\* Sequences over S of length lo..hi.
SeqsOf(S, lo, hi) == UNION {[1..n -> S] : n \in lo..hi}
Distinct(s) == \A i, j \in DOMAIN s : i # j => s[i] # s[j]

Indices == -1..MaxLength
CountCap == MaxLength + 1

\* A push is taken unless it would grow the array past MaxLength, or (on an
\* array that never grows) take size past it.
CanPush(q) ==
    /\ q.size < MaxLength
    /\ ~(q.size # 0 /\ q.size = q.length /\ 2 * q.length > MaxLength)

\* push calls _expand exactly when the queue is non-empty and full (lines 101-106).
Grows(q) == q.size # 0 /\ q.size = q.length
Wrapped(q) == JsLt(q.backIndex, q.frontIndex)
PushName(q) ==
    IF Grows(q)
    THEN IF Wrapped(q) THEN "push_expand_wrapped" ELSE "push_expand"
    ELSE "push"
\* remove returns the absent marker when at(index) is undefined (lines 140-142).
RemoveName(q, index) == IF at(q, index) = undefined THEN "remove_absent" ELSE "remove"

\* new Queue(capacity) for a positive capacity, new Queue(iterable).
InitialQueues ==
    {Queue_fromCapacity(c) : c \in 1..MaxCapacity}
        \cup {Queue_fromIterable(s) : s \in SeqsOf(Val, 0, MaxInit)}

\* --- Spec: a Queue under push, pop, remove and clear.
Init ==
    /\ queue \in InitialQueues
    /\ tracked = TrackerQueue_new(Queue_fromCapacity(1))
    /\ op = "new"
    /\ count = queue.size
    /\ pushed = <<>>
    /\ popped = <<>>
    /\ held = {}
    /\ npush = 0
    /\ abstract = <<>>

Bump(c) == IF c < CountCap THEN c + 1 ELSE c
Taken(c, r) == IF r # undefined THEN c - 1 ELSE c

Push(item) ==
    /\ CanPush(queue)
    /\ queue' = Queue_push(queue, item)
    /\ op' = PushName(queue)
    /\ count' = Bump(count)
    /\ UNCHANGED <<tracked, pushed, popped, held, npush, abstract>>

Pop ==
    /\ queue' = Queue_pop(queue).q
    /\ op' = "pop"
    /\ count' = Taken(count, Queue_pop(queue).ret)
    /\ UNCHANGED <<tracked, pushed, popped, held, npush, abstract>>

Remove(index) ==
    /\ queue' = Queue_remove(queue, index).q
    /\ op' = RemoveName(queue, index)
    /\ count' = Taken(count, Queue_remove(queue, index).ret)
    /\ UNCHANGED <<tracked, pushed, popped, held, npush, abstract>>

Clear ==
    /\ queue' = Queue_clear(queue)
    /\ op' = "clear"
    /\ count' = 0
    /\ UNCHANGED <<tracked, pushed, popped, held, npush, abstract>>

Next ==
    \/ \E item \in Val : Push(item)
    \/ Pop
    \/ \E index \in Indices : Remove(index)
    \/ Clear

Spec == Init /\ [][Next]_vars

\* --- SpecPos: the same calls on a Queue constructed with a positive capacity
\* or from a non-empty iterable.
PositiveQueues ==
    {Queue_fromCapacity(c) : c \in 1..MaxCapacity}
        \cup {Queue_fromIterable(s) : s \in SeqsOf(Val, 1, MaxInit)}

InitPos ==
    /\ queue \in PositiveQueues
    /\ tracked = TrackerQueue_new(Queue_fromCapacity(1))
    /\ op = "new"
    /\ count = queue.size
    /\ pushed = <<>>
    /\ popped = <<>>
    /\ held = {}
    /\ npush = 0
    /\ abstract = <<>>

SpecPos == InitPos /\ [][Next]_vars

\* --- SpecAny: the same calls on a positive-capacity Queue whose caller also
\* pushes the value undefined, which push stores like any other (line 101).
NextAny ==
    \/ \E item \in Val \cup {undefined} : Push(item)
    \/ Pop
    \/ \E index \in Indices : Remove(index)
    \/ Clear

SpecAny == InitPos /\ [][NextAny]_vars

\* --- SpecNew: new Queue(capacity) for every requested capacity from -1 up,
\* and the calls made on the object when the constructor returned one.
RequestedCapacities == (0 - 1)..MaxCapacity

InitNew ==
    /\ \E c \in RequestedCapacities :
          /\ queue = Queue_new(c).q
          /\ op = IF Queue_new(c).error = "none" THEN "new" ELSE Queue_new(c).error
    /\ tracked = TrackerQueue_new(Queue_fromCapacity(1))
    /\ count = 0
    /\ pushed = <<>>
    /\ popped = <<>>
    /\ held = {}
    /\ npush = 0
    /\ abstract = <<>>

NextNew == op # "RangeError" /\ Next

SpecNew == InitNew /\ [][NextNew]_vars

\* --- SpecFifo: a Queue of positive capacity under push and pop only.  The
\* elements of the constructor's iterable count as the first pushes.

InitFifo ==
    /\ queue \in PositiveQueues
    /\ tracked = TrackerQueue_new(Queue_fromCapacity(1))
    /\ op = "new"
    /\ count = 0
    /\ pushed = Elements(queue)
    /\ popped = <<>>
    /\ held = {}
    /\ npush = 0
    /\ abstract = <<>>

FifoPush(item) ==
    /\ Len(pushed) < MaxPushes
    /\ CanPush(queue)
    /\ queue' = Queue_push(queue, item)
    /\ op' = PushName(queue)
    /\ pushed' = Append(pushed, item)
    /\ UNCHANGED <<tracked, count, popped, held, npush, abstract>>

FifoPop ==
    /\ queue' = Queue_pop(queue).q
    /\ op' = "pop"
    /\ popped' = IF queue.size # 0 THEN Append(popped, Queue_pop(queue).ret) ELSE popped
    /\ UNCHANGED <<tracked, count, pushed, held, npush, abstract>>

NextFifo ==
    \/ \E item \in Val : FifoPush(item)
    \/ FifoPop

SpecFifo == InitFifo /\ [][NextFifo]_vars

\* C1: with push and pop only, the k-th pop issued on a non-empty queue
\* returns the k-th pushed value.
FifoOrder ==
    /\ Len(popped) <= Len(pushed)
    /\ \A k \in 1..Len(popped) : popped[k] = pushed[k]

\* Pops have returned elements, the window has wrapped, and a push has just
\* grown the wrapped window.
FifoOrderWitness ==
    /\ op = "push_expand_wrapped"
    /\ Len(popped) >= 1
    /\ Len(pushed) = Len(popped) + queue.size

\* --- SpecEq, SpecT: a TrackerQueue, and a Queue constructed from the same
\* argument that is given the same calls.  The caller keeps the elements
\* distinct: it pushes no value that the queue still holds.  SpecEq starts
\* from any argument and makes the calls the two classes share; SpecT starts
\* from a positive capacity or a non-empty iterable and adds removeItem.
TrackedArgs ==
    {Queue_fromCapacity(c) : c \in 1..MaxCapacity}
        \cup {Queue_fromIterable(s) : s \in {x \in SeqsOf(TVal, 0, MaxInit) : Distinct(x)}}

PositiveTrackedArgs == {q \in TrackedArgs : q.length > 0}

InitT ==
    /\ queue \in TrackedArgs
    /\ tracked = TrackerQueue_new(queue)
    /\ op = "new"
    /\ count = 0
    /\ pushed = <<>>
    /\ popped = <<>>
    /\ held = Range(Elements(queue))
    /\ npush = 0
    /\ abstract = <<>>

Fresh(item) ==
    /\ item \notin held
    /\ item \notin Range(Elements(tracked))
    /\ ~MapHas(tracked.tracker, key(item))

TPush(item) ==
    /\ npush < MaxTrackedPushes
    /\ Fresh(item)
    /\ CanPush(tracked)
    /\ CanPush(queue)
    /\ queue' = Queue_push(queue, item)
    /\ tracked' = TrackerQueue_push(tracked, item)
    /\ op' = PushName(tracked)
    /\ held' = held \cup {item}
    /\ npush' = npush + 1
    /\ UNCHANGED <<count, pushed, popped, abstract>>

TPop ==
    /\ queue' = Queue_pop(queue).q
    /\ tracked' = TrackerQueue_pop(tracked).q
    /\ op' = "pop"
    /\ held' = held \ {TrackerQueue_pop(tracked).ret}
    /\ UNCHANGED <<count, pushed, popped, npush, abstract>>

TRemove(index) ==
    /\ queue' = Queue_remove(queue, index).q
    /\ tracked' = TrackerQueue_remove(tracked, index).q
    /\ op' = RemoveName(tracked, index)
    /\ held' = held \ {TrackerQueue_remove(tracked, index).ret}
    /\ UNCHANGED <<count, pushed, popped, npush, abstract>>

TClear ==
    /\ queue' = Queue_clear(queue)
    /\ tracked' = TrackerQueue_clear(tracked)
    /\ op' = "clear"
    /\ held' = {}
    /\ UNCHANGED <<count, pushed, popped, npush, abstract>>

\* removeItem(item) on the tracked queue; the plain queue is given the
\* remove(position(item)) that removeItem makes (line 259).
TRemoveItem(item) ==
    /\ tracked' = removeItem(tracked, item).q
    /\ queue' = Queue_remove(queue, position(tracked, item)).q
    /\ op' = "removeItem"
    /\ held' = IF removeItem(tracked, item).ret THEN held \ {item} ELSE held
    /\ UNCHANGED <<count, pushed, popped, npush, abstract>>

NextEq ==
    \/ \E item \in TVal : TPush(item)
    \/ TPop
    \/ \E index \in Indices : TRemove(index)
    \/ TClear

SpecEq == InitT /\ [][NextEq]_vars

NextT ==
    \/ \E item \in TVal : TPush(item)
    \/ TPop
    \/ \E index \in Indices : TRemove(index)
    \/ TClear
    \/ \E item \in TVal : TRemoveItem(item)

InitTPos ==
    /\ InitT
    /\ queue \in PositiveTrackedArgs

SpecT == InitTPos /\ [][NextT]_vars

\* -------------------------------------------------------- properties
\* The value returned by the n-th of n consecutive pop() calls on q.
RECURSIVE NthPop(_, _)
NthPop(q, n) ==
    IF n <= 1 THEN Queue_pop(q).ret ELSE NthPop(Queue_pop(q).q, n - 1)

\* C2: for every i in [0, size), at(i) is the value the (i+1)-th of size
\* consecutive pops would return.
RandomAccessConsistent ==
    \A i \in 0..(queue.size - 1) : at(queue, i) = NthPop(queue, i + 1)

\* C3: for every i in [0, size), remove(i) returns the old at(i); afterwards
\* at(j) is the old at(j) for j < i and the old at(j+1) for i <= j < new size.
RemovalCorrect ==
    \A i \in 0..(queue.size - 1) :
        LET r == Queue_remove(queue, i)
        IN  /\ r.ret = at(queue, i)
            /\ \A j \in 0..(r.q.size - 1) :
                  at(r.q, j) = IF j < i THEN at(queue, j) ELSE at(queue, j + 1)

\* A remove has acted on a wrapped window and left a wrapped window of three
\* or more elements, from which the next remove can take either side.
RemovalCorrectWitness ==
    /\ op = "remove"
    /\ queue.length > 0
    /\ queue.backIndex >= 0
    /\ queue.backIndex < queue.frontIndex
    /\ queue.frontIndex < queue.length
    /\ queue.size >= 3

\* C6: front is at(0) and back is at(size-1) when size > 0; both are the
\* absent marker when size = 0.
FrontBackConsistent ==
    IF queue.size > 0
    THEN /\ front(queue) = at(queue, 0)
         /\ back(queue) = at(queue, queue.size - 1)
    ELSE /\ front(queue) = undefined
         /\ back(queue) = undefined

SizeIsCount ==
    /\ queue.size = count
    /\ queue.size >= 0
    /\ Queue_pop(queue).ret = undefined => Queue_pop(queue).q.size = queue.size
    /\ \A i \in Indices :
          Queue_remove(queue, i).ret = undefined => Queue_remove(queue, i).q.size = queue.size

\* C10: a queue constructed from an empty sequence has size 0; after push(x)
\* size is 1, front, back and at(0) are x, and a following pop returns x.
EmptyIterableIsEmptyQueue ==
    (op = "new" /\ queue = Queue_fromIterable(<<>>)) =>
        /\ queue.size = 0
        /\ \A x \in Val :
              LET q1 == Queue_push(queue, x)
              IN  /\ q1.size = 1
                  /\ front(q1) = x
                  /\ back(q1) = x
                  /\ at(q1, 0) = x
                  /\ Queue_pop(q1).ret = x

\* s without its entry at position i (1-based).
Without(s, i) == [j \in 1..(Len(s) - 1) |-> IF j < i THEN s[j] ELSE s[j + 1]]
IndexOf(s, e) == CHOOSE i \in DOMAIN s : s[i] = e

\* C4: in a tracked queue every live element e has 0 <= position(e) < size
\* and at(position(e)) = e.
PositionCorrect ==
    \A i \in 0..(tracked.size - 1) :
        LET e == at(tracked, i)
            p == position(tracked, e)
        IN  /\ JsGe(p, 0)
            /\ JsLt(p, tracked.size)
            /\ at(tracked, p) = e

\* C5: removeItem(e) returns true exactly when e is an element of the queue;
\* then size has decreased by 1, position(e) is -1 and the other elements
\* keep their order; when it returns false the queue is unchanged.
RemoveItemCorrect ==
    \A e \in TVal :
        LET r == removeItem(tracked, e)
            es == Elements(tracked)
        IN  /\ r.ret <=> (e \in Range(es))
            /\ r.ret =>
                  /\ r.q.size = tracked.size - 1
                  /\ position(r.q, e) = -1
                  /\ e \in Range(es)
                  /\ Elements(r.q) = Without(es, IndexOf(es, e))
            /\ ~r.ret => r.q = tracked

\* C9: a Queue and a TrackerQueue constructed from the same argument and
\* given the same calls hold the same front-to-back elements, answer size,
\* front, back and at(i) alike, and return the same value from the next pop
\* or remove(i).
TrackerQueueBehavesAsQueue ==
    /\ Elements(tracked) = Elements(queue)
    /\ size(tracked) = size(queue)
    /\ front(tracked) = front(queue)
    /\ back(tracked) = back(queue)
    /\ \A i \in Indices : at(tracked, i) = at(queue, i)
    /\ TrackerQueue_pop(tracked).ret = Queue_pop(queue).ret
    /\ \A i \in Indices : TrackerQueue_remove(tracked, i).ret = Queue_remove(queue, i).ret

\* Both queues have grown, wrapped, and had an element removed.
TrackerQueueBehavesAsQueueWitness ==
    /\ op = "remove"
    /\ tracked.length > MaxCapacity
    /\ tracked.size >= 2
    /\ queue.size >= 2
    /\ Wrapped(tracked)
    /\ tracked.backIndex >= 0

\* C11: pop() on an empty queue, and at(i) and remove(i) with i outside
\* [0, size), return the absent marker and leave the queue object (size,
\* frontIndex, backIndex, the array and, in the tracked queue, the tracker)
\* as it was.
AbsentLeavesUnchanged ==
    /\ queue.size = 0 => Queue_pop(queue) = [q |-> queue, ret |-> undefined]
    /\ tracked.size = 0 => TrackerQueue_pop(tracked) = [q |-> tracked, ret |-> undefined]
    /\ \A i \in Indices :
          ~(i >= 0 /\ i < queue.size) =>
              /\ at(queue, i) = undefined
              /\ Queue_remove(queue, i) = [q |-> queue, ret |-> undefined]
    /\ \A i \in Indices :
          ~(i >= 0 /\ i < tracked.size) =>
              /\ at(tracked, i) = undefined
              /\ TrackerQueue_remove(tracked, i) = [q |-> tracked, ret |-> undefined]

\* A remove has just returned the absent marker on a grown, wrapped tracked
\* queue that holds elements.
AbsentLeavesUnchangedWitness ==
    /\ op = "remove_absent"
    /\ tracked.length > MaxCapacity
    /\ Wrapped(tracked)
    /\ tracked.backIndex >= 0
    /\ tracked.size >= 2
    /\ Cardinality(DOMAIN tracked.tracker) >= 2
    /\ queue.size >= 2

\* C12: for every i in [0, size), remove(i) takes the element out and
\* decrements size by 1, whatever value is stored there; it returns the
\* absent marker, leaving the queue as it was, only for i outside [0, size).
RemoveTakesAnyValue ==
    \A i \in 0..(queue.size - 1) :
        LET r == Queue_remove(queue, i)
        IN  /\ r.q.size = queue.size - 1
            /\ r.q # queue
            /\ r.ret = Queue_at(queue, i)

\* push(s[1]), ..., push(s[n]) in a row on a Queue / on a TrackerQueue; the
\* pushes can all be made when none of them grows the array past MaxLength.
RECURSIVE PushAll(_, _)
PushAll(q, s) == IF s = <<>> THEN q ELSE PushAll(Queue_push(q, Head(s)), Tail(s))
RECURSIVE TrackedPushAll(_, _)
TrackedPushAll(t, s) ==
    IF s = <<>> THEN t ELSE TrackedPushAll(TrackerQueue_push(t, Head(s)), Tail(s))
RECURSIVE Pushable(_, _)
Pushable(q, s) ==
    s = <<>> \/ (CanPush(q) /\ Pushable(Queue_push(q, Head(s)), Tail(s)))

\* C13: right after clear() size is 0, front, back and every at(i) are the
\* absent marker, position(e) is -1 for every e in the tracked queue, and
\* after any n pushes that follow at(i) is the i-th pushed value for every
\* i < n.
ClearGivesFreshQueue ==
    op = "clear" =>
        /\ size(queue) = 0 /\ front(queue) = undefined /\ back(queue) = undefined
        /\ size(tracked) = 0 /\ front(tracked) = undefined /\ back(tracked) = undefined
        /\ \A i \in Indices : at(queue, i) = undefined /\ at(tracked, i) = undefined
        /\ \A e \in TVal : position(tracked, e) = -1
        /\ \A s \in SeqsOf(Val, 1, ClearPushes) :
              Pushable(queue, s) => Elements(PushAll(queue, s)) = s
        /\ \A s \in SeqsOf(TVal, 1, ClearPushes) :
              (Distinct(s) /\ Pushable(tracked, s)) =>
                  Elements(TrackedPushAll(tracked, s)) = s

\* clear has just acted on grown queues whose arrays still hold the old
\* elements, and enough pushes fit to fill the array again.
ClearGivesFreshQueueWitness ==
    /\ op = "clear"
    /\ tracked.length > MaxCapacity
    /\ Cardinality({k \in 0..(tracked.length - 1) : tracked.array[k] # undefined}) >= 3
    /\ Cardinality({k \in 0..(queue.length - 1) : queue.array[k] # undefined}) >= 3
    /\ \E s \in SeqsOf(TVal, ClearPushes, ClearPushes) : Pushable(tracked, s)

\* C14: new Queue(capacity) with capacity <= 0 fails with an error at the
\* constructor call, and no queue with capacity <= 0 is created.
NonPositiveCapacityFails ==
    op = "new" =>
        /\ queue.length > 0
        /\ \A c \in RequestedCapacities : c <= 0 => Queue_new(c).error # "none"

\* C15: 0 <= frontIndex < capacity and 0 <= backIndex < capacity; when
\* size > 0, backIndex = (frontIndex + size - 1) mod capacity; in particular
\* frontIndex = backIndex when size = 1.
IndicesInRange ==
    /\ JsGe(queue.frontIndex, 0) /\ JsLt(queue.frontIndex, queue.length)
    /\ JsGe(queue.backIndex, 0) /\ JsLt(queue.backIndex, queue.length)
    /\ queue.size > 0 =>
          queue.backIndex = JsMod(JsAdd(queue.frontIndex, queue.size - 1), queue.length)
    /\ queue.size = 1 => queue.frontIndex = queue.backIndex

\* --- SpecAbs: a Queue of positive capacity whose caller keeps the elements
\* distinct, beside the abstract sequence that the same calls produce: push
\* appends, pop drops the head, remove(i) deletes the i-th entry, clear
\* empties it.
InitAbs ==
    /\ queue \in PositiveTrackedArgs
    /\ tracked = TrackerQueue_new(Queue_fromCapacity(1))
    /\ op = "new"
    /\ count = 0
    /\ pushed = <<>>
    /\ popped = <<>>
    /\ held = {}
    /\ npush = 0
    /\ abstract = Elements(queue)

AbsPush(item) ==
    /\ item \notin Range(abstract)
    /\ CanPush(queue)
    /\ queue' = Queue_push(queue, item)
    /\ op' = PushName(queue)
    /\ abstract' = Append(abstract, item)
    /\ UNCHANGED <<tracked, count, pushed, popped, held, npush>>

AbsPop ==
    /\ queue' = Queue_pop(queue).q
    /\ op' = "pop"
    /\ abstract' = IF abstract # <<>> THEN Tail(abstract) ELSE abstract
    /\ UNCHANGED <<tracked, count, pushed, popped, held, npush>>

AbsRemove(index) ==
    /\ queue' = Queue_remove(queue, index).q
    /\ op' = RemoveName(queue, index)
    /\ abstract' = IF index >= 0 /\ index < Len(abstract)
                   THEN Without(abstract, index + 1)
                   ELSE abstract
    /\ UNCHANGED <<tracked, count, pushed, popped, held, npush>>

AbsClear ==
    /\ queue' = Queue_clear(queue)
    /\ op' = "clear"
    /\ abstract' = <<>>
    /\ UNCHANGED <<tracked, count, pushed, popped, held, npush>>

NextAbs ==
    \/ \E item \in TVal : AbsPush(item)
    \/ AbsPop
    \/ \E index \in Indices : AbsRemove(index)
    \/ AbsClear

SpecAbs == InitAbs /\ [][NextAbs]_vars

\* C16: the queue holds the abstract sequence front to back; a pop() issued
\* with size > 0 returns the head of the abstract sequence, never the absent
\* marker; the element that a pop or remove(i) takes out is the one returned.
RefinesSequence ==
    /\ queue.size = Len(abstract)
    /\ Elements(queue) = abstract
    /\ queue.size > 0 =>
          /\ Queue_pop(queue).ret # undefined
          /\ Queue_pop(queue).ret = Head(abstract)
          /\ Elements(Queue_pop(queue).q) = Tail(abstract)
    /\ \A i \in 0..(queue.size - 1) :
          /\ Queue_remove(queue, i).ret = abstract[i + 1]
          /\ Elements(Queue_remove(queue, i).q) = Without(abstract, i + 1)

\* The window of t lies inside the array: both indices are array indices.
WindowInRange(t) ==
    /\ t.length > 0
    /\ JsGe(t.frontIndex, 0) /\ JsLt(t.frontIndex, t.length)
    /\ JsGe(t.backIndex, 0) /\ JsLt(t.backIndex, t.length)

\* The slot of the array that holds the element at position i.
SlotOf(t, i) == JsMod(JsAdd(t.frontIndex, i), t.length)

\* The tracker maps the key of every live element to the slot holding it;
\* it is exact when it has no other entries.
TrackerMapsLive(t) ==
    \A i \in 0..(t.size - 1) :
        /\ MapHas(t.tracker, key(at(t, i)))
        /\ t.tracker[key(at(t, i))] = SlotOf(t, i)
TrackerExact(t) ==
    /\ TrackerMapsLive(t)
    /\ Cardinality(DOMAIN t.tracker) = t.size

\* C17: when the tracker maps every live element's key to its slot,
\* position(e) of a live element e is (slot - frontIndex) mod capacity, the
\* position p with at(p) = e, also on a wrapped window with size < capacity;
\* position is -1 only for an item whose key is not in the tracker.
PositionFromSlot ==
    (WindowInRange(tracked) /\ TrackerMapsLive(tracked)) =>
        /\ \A i \in 0..(tracked.size - 1) :
              LET e == at(tracked, i)
                  p == position(tracked, e)
              IN  /\ p = (tracked.tracker[key(e)] - tracked.frontIndex) % tracked.length
                  /\ p = i
                  /\ at(tracked, p) = e
        /\ \A e \in TVal : position(tracked, e) = -1 => ~MapHas(tracked.tracker, key(e))

\* C18: when the tracker is exact, a remove(i) that returns an element leaves
\* the tracker exact: the removed key is absent, the tracker has as many
\* entries as the new size, and every remaining element's key maps to the
\* slot that now holds it, whichever way the elements were shifted.
RemovePreservesTracker ==
    (WindowInRange(tracked) /\ TrackerExact(tracked)) =>
        \A i \in 0..(tracked.size - 1) :
            LET r == TrackerQueue_remove(tracked, i)
            IN  r.ret # undefined =>
                    /\ ~MapHas(r.q.tracker, key(r.ret))
                    /\ Cardinality(DOMAIN r.q.tracker) = r.q.size
                    /\ TrackerMapsLive(r.q)

\* C19: when the tracker is exact, a push that triggers growth leaves it
\* exact: every live element's key, the relocated elements of a wrapped
\* window and the pushed item included, maps to the slot that now holds the
\* element, and the tracker has exactly size entries.
GrowthPreservesTracker ==
    (/\ WindowInRange(tracked)
     /\ TrackerExact(tracked)
     /\ Grows(tracked)
     /\ CanPush(tracked)) =>
        \A item \in TVal :
            Fresh(item) => TrackerExact(TrackerQueue_push(tracked, item))

\* C20: _expand on a full wrapped window (backIndex < frontIndex) relocates
\* the tail (slots 0..backIndex) to the appended space and adds the old
\* capacity to backIndex, frontIndex unchanged, when the tail is smaller than
\* the head (slots frontIndex..old capacity - 1); otherwise it relocates the
\* head to the appended space and adds the old capacity to frontIndex,
\* backIndex unchanged.  A window that is not wrapped is not relocated.
ExpandRelocatesSmallerPart ==
    (WindowInRange(queue) /\ Grows(queue) /\ CanPush(queue)) =>
        LET e == Queue_expand(queue)
            old == queue.length
            tail == queue.backIndex + 1
            head == old - queue.frontIndex
        IN  /\ e.length = 2 * old
            /\ e.size = queue.size
            /\ IF queue.backIndex < queue.frontIndex
               THEN IF tail < head
                    THEN /\ e.backIndex = queue.backIndex + old
                         /\ e.frontIndex = queue.frontIndex
                         /\ \A k \in 0..queue.backIndex : e.array[old + k] = queue.array[k]
                    ELSE /\ e.frontIndex = queue.frontIndex + old
                         /\ e.backIndex = queue.backIndex
                         /\ \A k \in queue.frontIndex..(old - 1) :
                               e.array[old + k] = queue.array[k]
               ELSE /\ e.frontIndex = queue.frontIndex
                    /\ e.backIndex = queue.backIndex
                    /\ e.array = queue.array

====
